---- MODULE Spec2Model ----
\* Model of horovod/torch/mpi_ops.py: the handle table (_handle_map), the
\* divisor/op policy of allreduce and grouped allreduce, the type/layout
\* validation (_check_function), the five asynchronous submissions, poll and
\* synchronize, as run by the Python threads of ONE rank against the native
\* library (mpi_lib) of that rank.
EXTENDS Integers, Sequences, FiniteSets, TLC

\* ---------------------------------------------------------------- bounds
\* Ranks of the largest cluster enumerated.
MaxRanks == 4
\* Handles the native library hands out in one behaviour.
MaxHandles == 1
\* Python threads of the rank that call into the module.
NumThreads == 2
\* Tensors of one grouped allreduce.
MaxGroup == 2
\* Handles outstanding at once in the specification of concurrent callers.
MaxOutstanding == 2
\* The largest axis-0 extent of a tensor given to a differentiable collective.
MaxRows == 4
\* The largest number of ranks of an all-to-all.
MaxExchange == 2
\* The largest number of rows one rank sends to one rank in an all-to-all.
MaxSplit == 1

\* Ranks of the largest job that joins.
MaxJoinRanks == 3
\* Collectives one rank issues before it joins.
MaxCollectives == 1

\* ------------------------------------------------------------- constants
\* Python's None, and the empty name handed to the library for it.
None == "None"
_NULL == ""

Average == "Average"
Sum == "Sum"
Adasum == "Adasum"
Ops == {Average, Sum, Adasum}

Threads == 1..NumThreads
Handles == 1..MaxHandles

VARIABLES
    topo,         \* topology and build facts of the process (read-only)
    _handle_map,  \* handle -> tuple of operands
    results,      \* native handle manager: handle -> status of the operation
    last_handle,  \* native handle manager: last handle handed out
    pc,           \* per thread: position inside synchronize
    arg,          \* per thread: the handle synchronize was called with
    ret,          \* the call that finished last: request, native call, outcome
    pending,      \* handle -> operands submitted, from submission to consumption
    polled,       \* handles not yet waited for, for which poll has returned True
    capacity,     \* native handle manager: handles it can hand out (read-only)
    ctx,          \* autograd: the context object saved by forward
    world,        \* autograd: this rank, and what each rank holds (read-only)
    grad,         \* autograd: what forward or backward returned, the calls it made
    job,          \* join: what each rank of the job is doing, the order of the joins
    reuse         \* native handle manager: it may hand out a handle again (read-only)

\* The state of the autograd functions.
autograd == <<ctx, world, grad>>

vars ==
    <<topo, _handle_map, results, last_handle, pc, arg, ret, pending, polled,
      capacity, ctx, world, grad, job, reuse>>

\* ------------------------------------------------- topology (basics component)
RECURSIVE SeqSum(_)
SeqSum(s) ==
    IF s = <<>> THEN 0 ELSE Head(s) + SeqSum(Tail(s))

\* A cluster: for each node, the number of ranks it runs. This rank runs on
\* node 1.
Layouts ==
    { l \in UNION {[1..n -> 1..MaxRanks] : n \in 1..MaxRanks} : SeqSum(l) <= MaxRanks }

\* What the basics component reports on a cluster and a build.
Facts(layout, rocm, nccl, gpu) ==
    [size |-> SeqSum(layout),
     local_size |-> layout[1],
     homogeneous |-> \A i \in DOMAIN layout : layout[i] = layout[1],
     rocm |-> rocm, nccl |-> nccl, gpu |-> gpu]

Topologies ==
    { Facts(l, r, n, g) : l \in Layouts, r \in BOOLEAN, n \in BOOLEAN, g \in BOOLEAN }

size == topo.size
local_size == topo.local_size
is_homogeneous == topo.homogeneous
rocm_built == topo.rocm
nccl_built == topo.nccl
gpu_available == topo.gpu

RECURSIVE num_rank_is_power_2(_)
num_rank_is_power_2(num_rank) ==
    IF num_rank <= 0 THEN FALSE
    ELSE IF num_rank = 1 THEN TRUE
    ELSE num_rank % 2 = 0 /\ num_rank_is_power_2(num_rank \div 2)

\* ------------------------------------------------------------------ tensors
\* A type name is its dot-separated segments; replace('.', '_') joins the
\* same segments with underscores.
DottedName(segs) == [sep |-> ".", segs |-> segs]
Replace(s, old, new) ==
    IF s.sep = old THEN [sep |-> new, segs |-> s.segs] ELSE s

FloatTensor == DottedName(<<"torch", "FloatTensor">>)
CudaFloatTensor == DottedName(<<"torch", "cuda", "FloatTensor">>)
BoolTensor == DottedName(<<"torch", "BoolTensor">>)

\* The caller's tensors: id, device, type, layout.
CpuTensor ==
    [id |-> 1, device |-> "cpu", type |-> FloatTensor, contiguous |-> TRUE]
CudaTensor ==
    [id |-> 2, device |-> "cuda", type |-> CudaFloatTensor, contiguous |-> TRUE]
UnsupportedTensor ==
    [id |-> 3, device |-> "cpu", type |-> BoolTensor, contiguous |-> TRUE]
StridedCudaTensor ==
    [id |-> 4, device |-> "cuda", type |-> CudaFloatTensor, contiguous |-> FALSE]
Tensors == {CpuTensor, CudaTensor, UnsupportedTensor, StridedCudaTensor}

\* An operand of a call is the tuple of the ids of its tensors: one id for a
\* tensor, one per element for a list of tensors.
Ref(tensor) == <<tensor.id>>
Refs(tensors) == [i \in DOMAIN tensors |-> tensors[i].id]

\* tensor.new(...): a buffer no caller holds yet; the i-th buffer allocated by
\* the call that is given handle h.
NewBuffer(h, i) == 10 * h + i

\* The entry points the native library was built with.
Prefixes ==
    { "horovod_torch_allreduce_async_", "horovod_torch_grouped_allreduce_async_",
      "horovod_torch_allgather_async_", "horovod_torch_broadcast_async_",
      "horovod_torch_alltoall_async_" }
mpi_lib ==
    { [prefix |-> p, suffix |-> Replace(t, ".", "_")] :
        p \in Prefixes, t \in {FloatTensor, CudaFloatTensor} }

_allreduce_function_factory(tensor) ==
    [prefix |-> "horovod_torch_allreduce_async_", suffix |-> Replace(tensor.type, ".", "_")]
_grouped_allreduce_function_factory(tensor) ==
    [prefix |-> "horovod_torch_grouped_allreduce_async_", suffix |-> Replace(tensor.type, ".", "_")]
_allgather_function_factory(tensor) ==
    [prefix |-> "horovod_torch_allgather_async_", suffix |-> Replace(tensor.type, ".", "_")]
_broadcast_function_factory(tensor) ==
    [prefix |-> "horovod_torch_broadcast_async_", suffix |-> Replace(tensor.type, ".", "_")]
_alltoall_function_factory(tensor) ==
    [prefix |-> "horovod_torch_alltoall_async_", suffix |-> Replace(tensor.type, ".", "_")]

\* _check_function: "ok", or the message of the ValueError raised.
_check_function(function, tensor) ==
    IF function \notin mpi_lib THEN "Tensor type is not supported."
    ELSE IF ~tensor.contiguous THEN "Tensor is required to be contiguous."
    ELSE "ok"

\* ------------------------------------------------------- divisor/op policy
\* What lines 84-114 (and 268-297) decide: the op and divisor handed to the
\* library and whether a warning was emitted, or the NotImplementedError.
PolicyOk(op, divisor, warned) ==
    [exc |-> "", msg |-> "", op |-> op, divisor |-> divisor, warned |-> warned]
PolicyError(msg) ==
    [exc |-> "NotImplementedError", msg |-> msg, op |-> "", divisor |-> 0, warned |-> FALSE]

\* An averaging at framework level that forgets op = Sum.
_allreduce_average_keeps_op ==
    IF rocm_built THEN PolicyOk(Average, size, FALSE)
    ELSE PolicyOk(Average, 1, FALSE)

\* An averaging that is at framework level only until a handle was handed out.
_allreduce_average_first_call ==
    IF rocm_built /\ last_handle = 0 THEN PolicyOk(Sum, size, FALSE)
    ELSE PolicyOk(Average, 1, FALSE)

\* Lines 85-90: op == Average
_allreduce_average ==
    IF rocm_built THEN PolicyOk(Sum, size, FALSE)
    ELSE PolicyOk(Average, 1, FALSE)

\* A GPU Adasum without the test of is_homogeneous().
_allreduce_adasum_nccl_any_cluster ==
    IF ~num_rank_is_power_2(size \div local_size) THEN
        PolicyError("Running GPU Adasum with non-power of 2 nodes is not supported yet.")
    ELSE IF rocm_built THEN PolicyOk(Adasum, local_size, FALSE)
    ELSE PolicyOk(Adasum, 1, FALSE)

\* A GPU Adasum that averages over all ranks instead of those of the node.
_allreduce_adasum_nccl_world_divisor ==
    IF ~is_homogeneous THEN
        PolicyError("Running GPU Adasum on heterogeneous cluster is not supported yet.")
    ELSE IF ~num_rank_is_power_2(size \div local_size) THEN
        PolicyError("Running GPU Adasum with non-power of 2 nodes is not supported yet.")
    ELSE IF rocm_built THEN PolicyOk(Adasum, size, FALSE)
    ELSE PolicyOk(Adasum, 1, FALSE)

\* Lines 95-103: op == Adasum, accelerator tensor, NCCL built.
\* int(size() / local_size()) is the quotient rounded down.
_allreduce_adasum_nccl ==
    IF ~is_homogeneous THEN
        PolicyError("Running GPU Adasum on heterogeneous cluster is not supported yet.")
    ELSE IF ~num_rank_is_power_2(size \div local_size) THEN
        PolicyError("Running GPU Adasum with non-power of 2 nodes is not supported yet.")
    ELSE IF rocm_built THEN PolicyOk(Adasum, local_size, FALSE)
    ELSE PolicyOk(Adasum, 1, FALSE)

\* A GPU Adasum that refuses to run without NCCL.
_allreduce_adasum_gpu_needs_nccl ==
    IF nccl_built THEN _allreduce_adasum_nccl
    ELSE PolicyError("Adasum reduction does not currently support GPU reduction using MPI.")

\* Lines 94-108: op == Adasum, accelerator tensor, accelerator available
_allreduce_adasum_gpu ==
    IF nccl_built THEN _allreduce_adasum_nccl
    ELSE PolicyOk(Adasum, 1, TRUE)

\* Lines 110-112: op == Adasum otherwise
_allreduce_adasum_cpu ==
    IF ~num_rank_is_power_2(size) THEN
        PolicyError("Running Adasum with non-power of 2 ranks is not supported yet.")
    ELSE PolicyOk(Adasum, 1, FALSE)

\* Lines 84-114 of _allreduce_async
_allreduce_policy(tensor, op) ==
    IF op = Average THEN _allreduce_average
    ELSE IF op = Adasum THEN
        IF tensor.device # "cpu" /\ gpu_available THEN _allreduce_adasum_gpu
        ELSE _allreduce_adasum_cpu
    ELSE PolicyOk(op, 1, FALSE)

\* Lines 269-274: op == Average
_grouped_allreduce_average ==
    IF rocm_built THEN PolicyOk(Sum, size, FALSE)
    ELSE PolicyOk(Average, 1, FALSE)

\* A GPU Adasum that tests the number of ranks in place of the number of nodes.
_grouped_allreduce_adasum_nccl_by_ranks ==
    IF ~is_homogeneous THEN
        PolicyError("Running GPU Adasum on heterogeneous cluster is not supported yet.")
    ELSE IF ~num_rank_is_power_2(size) THEN
        PolicyError("Running GPU Adasum with non-power of 2 nodes is not supported yet.")
    ELSE IF rocm_built THEN PolicyOk(Adasum, local_size, FALSE)
    ELSE PolicyOk(Adasum, 1, FALSE)

\* Lines 278-286: op == Adasum, accelerator tensor, NCCL built
_grouped_allreduce_adasum_nccl ==
    IF ~is_homogeneous THEN
        PolicyError("Running GPU Adasum on heterogeneous cluster is not supported yet.")
    ELSE IF ~num_rank_is_power_2(size \div local_size) THEN
        PolicyError("Running GPU Adasum with non-power of 2 nodes is not supported yet.")
    ELSE IF rocm_built THEN PolicyOk(Adasum, local_size, FALSE)
    ELSE PolicyOk(Adasum, 1, FALSE)

\* Lines 277-291: op == Adasum, accelerator tensor, accelerator available
_grouped_allreduce_adasum_gpu ==
    IF nccl_built THEN _grouped_allreduce_adasum_nccl
    ELSE PolicyOk(Adasum, 1, TRUE)

\* A CPU Adasum without the test of the number of ranks.
_grouped_allreduce_adasum_cpu_unchecked == PolicyOk(Adasum, 1, FALSE)

\* Lines 293-295: op == Adasum otherwise
_grouped_allreduce_adasum_cpu ==
    IF ~num_rank_is_power_2(size) THEN
        PolicyError("Running Adasum with non-power of 2 ranks is not supported yet.")
    ELSE PolicyOk(Adasum, 1, FALSE)

\* A policy that takes the GPU path when any tensor of the list is on an
\* accelerator.
_grouped_allreduce_policy_any_device(tensors, op) ==
    IF op = Average THEN _grouped_allreduce_average
    ELSE IF op = Adasum THEN
        IF (\E i \in DOMAIN tensors : tensors[i].device # "cpu") /\ gpu_available
        THEN _grouped_allreduce_adasum_gpu
        ELSE _grouped_allreduce_adasum_cpu
    ELSE PolicyOk(op, 1, FALSE)

\* Lines 268-297 of _grouped_allreduce_async: tensors[0] stands for the list
_grouped_allreduce_policy(tensors, op) ==
    IF op = Average THEN _grouped_allreduce_average
    ELSE IF op = Adasum THEN
        IF tensors[1].device # "cpu" /\ gpu_available THEN _grouped_allreduce_adasum_gpu
        ELSE _grouped_allreduce_adasum_cpu
    ELSE PolicyOk(op, 1, FALSE)

\* -------------------------------------------------------- call outcomes
\* What a call asked for: the (first) tensor, the reduction op, the name.
NoRequest == [tensor |-> 0, op |-> "", name |-> None]
Request(tensor, op, name) == [tensor |-> tensor.id, op |-> op, name |-> name]

\* name.encode() if name is not None else _NULL
EncodeName(name) ==
    IF name # None THEN [type |-> "bytes", text |-> name]
    ELSE [type |-> "str", text |-> _NULL]

\* The arguments of a call of a native submission function.
Operands(input, splits, output) == [input |-> input, splits |-> splits, output |-> output]
NoSent ==
    [called |-> FALSE, function |-> [prefix |-> "", suffix |-> DottedName(<<>>)],
     operands |-> Operands(<<>>, <<>>, <<>>), divisor |-> 0, name |-> EncodeName(None),
     op |-> "", prescale_factor |-> 0, postscale_factor |-> 0, root_rank |-> -1]
Sent(function, operands, divisor, name, op, prescale_factor, postscale_factor, root_rank) ==
    [called |-> TRUE, function |-> function, operands |-> operands, divisor |-> divisor,
     name |-> EncodeName(name), op |-> op, prescale_factor |-> prescale_factor,
     postscale_factor |-> postscale_factor, root_rank |-> root_rank]

Outcome(call, request, handle, exc, msg, value, output, warned, sent) ==
    [call |-> call, request |-> request, handle |-> handle, exc |-> exc, msg |-> msg,
     value |-> value, output |-> output, warned |-> warned, sent |-> sent]
NoRet == Outcome("none", NoRequest, 0, "", "", None, <<>>, FALSE, NoSent)

\* --------------------------------------------------- native library (mpi_lib)
\* The handle manager keeps, per handle, the status of the operation; a
\* handle that was waited for is cleared.
Live(h) == h \in DOMAIN results /\ ~results[h].cleared

\* The library runs the collective, on its own thread, to success or failure.
BackendComplete(h) ==
    /\ Live(h)
    /\ results[h].status = "inflight"
    /\ \E ok \in BOOLEAN :
         results' = [results EXCEPT ![h].status = IF ok THEN "done" ELSE "failed"]
    /\ UNCHANGED <<topo, capacity, reuse, job, autograd, _handle_map, last_handle, pc, arg, ret, pending, polled>>

\* ------------------------------------------------------------ handle table
\* A registration that replaces the map by the new entry.
RegisterAlone(map, handle, entry) == (handle :> entry)

\* _handle_map[handle] = entry
Register(map, handle, entry) ==
    [h \in DOMAIN map \cup {handle} |-> IF h = handle THEN entry ELSE map[h]]

\* A pop that reads the entry and leaves it in the map.
PopKeepsEntry(map, handle) == map

\* _handle_map.pop(handle): the map without the handle
Pop(map, handle) ==
    [h \in DOMAIN map \ {handle} |-> map[h]]

\* An index of 0 in place of -1: the input operand.
PoppedFirst(entry) == entry[1]

\* _handle_map.pop(handle)[-1]
PoppedOutput(entry) == entry[Len(entry)]

\* ------------------------------------------------------------- submissions
\* An except clause that swallows the error of the library.
ReraisedNothing(raised) == ""

\* except RuntimeError as e: raise HorovodInternalError(e)
Reraised(raised) ==
    IF raised = "RuntimeError" THEN "HorovodInternalError" ELSE raised

\* The handles the library may return for a new operation: the next one, or
\* when it breaks its contract any one it has handed out before.
HandedOut ==
    { h \in 1..capacity : h = last_handle + 1 \/ (reuse /\ h <= last_handle) }

\* The common end of the five _*_async functions: _check_function, the call
\* of the native function inside try/except RuntimeError, the registration.
\* The library hands out at most capacity handles.
Dispatch(call, request, function, tensor, entry, sent, warned) ==
    LET check == _check_function(function, tensor) IN
    IF check # "ok" THEN
        /\ ret' = Outcome(call, request, 0, "ValueError", check, None, <<>>, warned, NoSent)
        /\ UNCHANGED <<topo, capacity, reuse, job, autograd, _handle_map, results, last_handle, pc, arg, pending, polled>>
    ELSE
        \E ok \in {b \in BOOLEAN : b => HandedOut # {}} :
            /\ IF ok THEN
                  \E handle \in HandedOut :
                  /\ last_handle' = IF handle > last_handle THEN handle ELSE last_handle
                  /\ results' = Register(results, handle,
                                         [status |-> "inflight", cleared |-> FALSE])
                  /\ pending' = Register(pending, handle, sent.operands)
                  /\ _handle_map' = Register(_handle_map, handle, entry)
                  /\ ret' = Outcome(call, request, handle, "", "", "handle", <<>>, warned, sent)
               ELSE
                  /\ ret' = Outcome(call, request, 0, Reraised("RuntimeError"), "RuntimeError",
                                    None, <<>>, warned, sent)
                  /\ UNCHANGED <<_handle_map, results, last_handle, pending>>
            /\ UNCHANGED <<topo, capacity, reuse, job, autograd, pc, arg, polled>>

\* A call that the policy refuses raises before it reaches _check_function.
Refuse(call, request, policy) ==
    /\ ret' = Outcome(call, request, 0, policy.exc, policy.msg, None, <<>>,
                      policy.warned, NoSent)
    /\ UNCHANGED <<topo, capacity, reuse, job, autograd, _handle_map, results, last_handle, pc, arg, pending, polled>>

\* _allreduce_async(tensor, output, name, op, prescale_factor, postscale_factor)
_allreduce_async(call, tensor, output, name, op, prescale_factor, postscale_factor) ==
    LET policy == _allreduce_policy(tensor, op) IN
    IF policy.exc # "" THEN Refuse(call, Request(tensor, op, name), policy)
    ELSE
        Dispatch(call, Request(tensor, op, name), _allreduce_function_factory(tensor), tensor,
                 <<Ref(tensor), output>>,
                 Sent(_allreduce_function_factory(tensor),
                      Operands(Ref(tensor), <<>>, output),
                      policy.divisor, name, policy.op, prescale_factor, postscale_factor, -1),
                 policy.warned)

\* allreduce_async: output = tensor.new(tensor.shape)
allreduce_async(t, tensor, name, op, prescale_factor, postscale_factor) ==
    /\ pc[t] = "idle"
    /\ _allreduce_async("allreduce_async", tensor, <<NewBuffer(last_handle + 1, 1)>>,
                        name, op, prescale_factor, postscale_factor)

\* An in-place variant that allocates an output as allreduce_async does.
allreduce_async__new_output(t, tensor, name, op, prescale_factor, postscale_factor) ==
    /\ pc[t] = "idle"
    /\ _allreduce_async("allreduce_async_", tensor, <<NewBuffer(last_handle + 1, 1)>>,
                        name, op, prescale_factor, postscale_factor)

\* allreduce_async_: the tensor is its own output
allreduce_async_(t, tensor, name, op, prescale_factor, postscale_factor) ==
    /\ pc[t] = "idle"
    /\ _allreduce_async("allreduce_async_", tensor, Ref(tensor),
                        name, op, prescale_factor, postscale_factor)

\* _grouped_allreduce_async(tensors, outputs, name, op, prescale_factor, postscale_factor)
_grouped_allreduce_async(call, tensors, outputs, name, op, prescale_factor, postscale_factor) ==
    LET policy == _grouped_allreduce_policy(tensors, op) IN
    IF policy.exc # "" THEN Refuse(call, Request(tensors[1], op, name), policy)
    ELSE
        Dispatch(call, Request(tensors[1], op, name),
                 _grouped_allreduce_function_factory(tensors[1]), tensors[1],
                 <<Refs(tensors), outputs>>,
                 Sent(_grouped_allreduce_function_factory(tensors[1]),
                      Operands(Refs(tensors), <<>>, outputs),
                      policy.divisor, name, policy.op, prescale_factor, postscale_factor, -1),
                 policy.warned)

\* grouped_allreduce_async: outputs = [t.new(t.shape) for t in tensors]
grouped_allreduce_async(t, tensors, name, op, prescale_factor, postscale_factor) ==
    /\ pc[t] = "idle"
    /\ _grouped_allreduce_async("grouped_allreduce_async", tensors,
                                [i \in DOMAIN tensors |-> NewBuffer(last_handle + 1, i)],
                                name, op, prescale_factor, postscale_factor)

\* grouped_allreduce_async_: the tensors are their own outputs
grouped_allreduce_async_(t, tensors, name, op, prescale_factor, postscale_factor) ==
    /\ pc[t] = "idle"
    /\ _grouped_allreduce_async("grouped_allreduce_async_", tensors, Refs(tensors),
                                name, op, prescale_factor, postscale_factor)

\* _allgather_async(tensor, output, name)
_allgather_async(call, tensor, output, name) ==
    Dispatch(call, Request(tensor, "", name), _allgather_function_factory(tensor), tensor,
             <<Ref(tensor), output>>,
             Sent(_allgather_function_factory(tensor), Operands(Ref(tensor), <<>>, output),
                  0, name, "", 0, 0, -1),
             FALSE)

\* allgather_async: output = tensor.new()
allgather_async(t, tensor, name) ==
    /\ pc[t] = "idle"
    /\ _allgather_async("allgather_async", tensor, <<NewBuffer(last_handle + 1, 1)>>, name)

\* _broadcast_async(tensor, output, root_rank, name)
_broadcast_async(call, tensor, output, root_rank, name) ==
    Dispatch(call, Request(tensor, "", name), _broadcast_function_factory(tensor), tensor,
             <<Ref(tensor), output>>,
             Sent(_broadcast_function_factory(tensor), Operands(Ref(tensor), <<>>, output),
                  0, name, "", 0, 0, root_rank),
             FALSE)

\* broadcast_async: output = tensor.new(tensor.shape)
broadcast_async(t, tensor, root_rank, name) ==
    /\ pc[t] = "idle"
    /\ _broadcast_async("broadcast_async", tensor, <<NewBuffer(last_handle + 1, 1)>>,
                        root_rank, name)

\* broadcast_async_: the tensor is its own output
broadcast_async_(t, tensor, root_rank, name) ==
    /\ pc[t] = "idle"
    /\ _broadcast_async("broadcast_async_", tensor, Ref(tensor), root_rank, name)

\* Lines 667-671: no splits become an empty placeholder tensor, a list of
\* splits becomes a new tensor, a tensor of splits is passed as it is.
SplitsTensor(splits, fresh) ==
    IF splits.kind = "None" THEN <<fresh>>
    ELSE IF splits.kind # "Tensor" THEN <<fresh>>
    ELSE <<splits.id>>

\* _alltoall_async(tensor, splits, output, name)
_alltoall_async(call, tensor, splits, output, name) ==
    LET splits_tensor == SplitsTensor(splits, NewBuffer(last_handle + 1, 2)) IN
    Dispatch(call, Request(tensor, "", name), _alltoall_function_factory(tensor), tensor,
             <<Ref(tensor), splits_tensor, output>>,
             Sent(_alltoall_function_factory(tensor),
                  Operands(Ref(tensor), splits_tensor, output),
                  0, name, "", 0, 0, -1),
             FALSE)

\* alltoall_async: output = tensor.new()
alltoall_async(t, tensor, splits, name) ==
    /\ pc[t] = "idle"
    /\ _alltoall_async("alltoall_async", tensor, splits,
                       <<NewBuffer(last_handle + 1, 1)>>, name)

\* -------------------------------------------------------- poll, synchronize
\* A poll that compares the wrong way round.
PollResultInverted(status) == status = "inflight"

\* horovod_torch_poll(handle) != 0
PollResult(status) == status # "inflight"

poll(t, handle) ==
    /\ pc[t] = "idle"
    /\ Live(handle)
    /\ ret' = Outcome("poll", NoRequest, handle, "", "",
                      IF PollResult(results[handle].status) THEN "True" ELSE "False",
                      <<>>, FALSE, NoSent)
    /\ polled' = IF PollResult(results[handle].status) THEN polled \cup {handle} ELSE polled
    /\ UNCHANGED <<topo, capacity, reuse, job, autograd, _handle_map, results, last_handle, pc, arg, pending>>

\* The callers synchronize a handle one at a time: no other thread is inside
\* synchronize for it.
NotBeingSynchronized(t, handle) ==
    \A u \in Threads \ {t} : pc[u] = "idle" \/ arg[u] # handle

\* A synchronize without the membership test of line 788.
AbsentNever(map, handle) == FALSE

\* Line 788: handle not in _handle_map
Absent(map, handle) == handle \notin DOMAIN map

\* Lines 788-789: if handle not in _handle_map: return
synchronize_test(t, handle) ==
    /\ pc[t] = "idle"
    /\ IF Absent(_handle_map, handle) THEN
          /\ ret' = Outcome("synchronize", NoRequest, handle, "", "", None, <<>>, FALSE, NoSent)
          /\ UNCHANGED <<pc, arg>>
       ELSE
          /\ pc' = [pc EXCEPT ![t] = "wait"]
          /\ arg' = [arg EXCEPT ![t] = handle]
          /\ UNCHANGED ret
    /\ UNCHANGED <<topo, capacity, reuse, job, autograd, _handle_map, results, last_handle, pending, polled>>

\* What waiting for a handle the library has cleared raises: the library's
\* runtime error, or an error of another kind that the except clause lets
\* through.
ClearedHandleErrors == {"HorovodInternalError", "ValueError"}

\* A wait that drops the entry of the handle when the operation failed.
synchronize_wait_drops_failed(t) ==
    /\ pc[t] = "wait"
    /\ LET handle == arg[t] IN
       IF ~Live(handle) THEN
          /\ \E exc \in ClearedHandleErrors :
               ret' = Outcome("synchronize", NoRequest, handle, exc, "handle cleared",
                              None, <<>>, FALSE, NoSent)
          /\ pc' = [pc EXCEPT ![t] = "idle"]
          /\ UNCHANGED <<results, polled, _handle_map, pending>>
       ELSE
          /\ results[handle].status # "inflight"
          /\ results' = [results EXCEPT ![handle].cleared = TRUE]
          /\ polled' = polled \ {handle}
          /\ IF results[handle].status = "done" THEN
                /\ pc' = [pc EXCEPT ![t] = "pop"]
                /\ UNCHANGED <<ret, _handle_map, pending>>
             ELSE
                /\ pc' = [pc EXCEPT ![t] = "idle"]
                /\ ret' = Outcome("synchronize", NoRequest, handle, "HorovodInternalError",
                                  "RuntimeError", None, <<>>, FALSE, NoSent)
                /\ _handle_map' = Pop(_handle_map, handle)
                /\ pending' = Pop(pending, handle)
    /\ UNCHANGED <<topo, capacity, reuse, job, autograd, last_handle, arg>>

\* Line 792: horovod_torch_wait_and_clear(handle), which blocks until the
\* operation has completed, clears the handle and raises if it failed.
synchronize_wait(t) ==
    /\ pc[t] = "wait"
    /\ LET handle == arg[t] IN
       IF ~Live(handle) THEN
          /\ \E exc \in ClearedHandleErrors :
               ret' = Outcome("synchronize", NoRequest, handle, exc, "handle cleared",
                              None, <<>>, FALSE, NoSent)
          /\ pc' = [pc EXCEPT ![t] = "idle"]
          /\ UNCHANGED <<results, polled>>
       ELSE
          /\ results[handle].status # "inflight"
          /\ results' = [results EXCEPT ![handle].cleared = TRUE]
          /\ polled' = polled \ {handle}
          /\ IF results[handle].status = "done" THEN
                /\ pc' = [pc EXCEPT ![t] = "pop"]
                /\ UNCHANGED ret
             ELSE
                /\ pc' = [pc EXCEPT ![t] = "idle"]
                /\ ret' = Outcome("synchronize", NoRequest, handle, "HorovodInternalError",
                                  "RuntimeError", None, <<>>, FALSE, NoSent)
    /\ UNCHANGED <<topo, capacity, reuse, job, autograd, _handle_map, last_handle, arg, pending>>

\* Lines 793-794: output = _handle_map.pop(handle)[-1]; return output
synchronize_pop(t) ==
    /\ pc[t] = "pop"
    /\ LET handle == arg[t] IN
       IF handle \in DOMAIN _handle_map THEN
          /\ ret' = Outcome("synchronize", NoRequest, handle, "", "", "tensor",
                            PoppedOutput(_handle_map[handle]), FALSE, NoSent)
          /\ _handle_map' = Pop(_handle_map, handle)
          /\ pending' = [h \in DOMAIN pending \ {handle} |-> pending[h]]
       ELSE
          /\ ret' = Outcome("synchronize", NoRequest, handle, "KeyError", "", None, <<>>,
                            FALSE, NoSent)
          /\ UNCHANGED <<_handle_map, pending>>
    /\ pc' = [pc EXCEPT ![t] = "idle"]
    /\ UNCHANGED <<topo, capacity, reuse, job, autograd, results, last_handle, arg, polled>>

\* -------------------------------------------------------------------- join
\* What the ranks of a job are doing: per rank (rank r is element r + 1) its
\* phase, whether it waits for a collective it issued, the collectives it
\* completed, what join returned or raised; and the ranks in the order in
\* which they called join.
Job(phase, waiting, completed, value, exc, order) ==
    [phase |-> phase, waiting |-> waiting, completed |-> completed, value |-> value,
     exc |-> exc, order |-> order]
NoJob == Job(<<>>, <<>>, <<>>, <<>>, <<>>, <<>>)

Ranks == 0..(size - 1)
Joined(r) == job.phase[r + 1] # "running"
\* The library lets join return once every rank of the job has called it.
AllJoined == \A r \in Ranks : Joined(r)
\* The id the library returns: that of the rank that called join last.
LastJoined == job.order[Len(job.order)]
\* Collectives rank r has issued, the one it waits for included.
Issued(r) == job.completed[r + 1] + (IF job.waiting[r + 1] THEN 1 ELSE 0)
\* The library completes a collective when every other rank has issued it
\* or has joined; a rank that joined contributes zeros.
Serviceable(r) ==
    \A s \in Ranks \ {r} : Joined(s) \/ Issued(s) >= Issued(r)

\* A rank that has not joined issues a collective and waits for it.
IssueCollective(r) ==
    /\ job.phase[r + 1] = "running"
    /\ ~job.waiting[r + 1]
    /\ job.completed[r + 1] < MaxCollectives
    /\ job' = [job EXCEPT !.waiting[r + 1] = TRUE]
    /\ UNCHANGED <<topo, capacity, reuse, autograd, _handle_map, results, last_handle, pc, arg, ret,
                   pending, polled>>

CompleteCollective(r) ==
    /\ job.waiting[r + 1]
    /\ Serviceable(r)
    /\ job' = [job EXCEPT !.waiting[r + 1] = FALSE,
                          !.completed[r + 1] = job.completed[r + 1] + 1]
    /\ UNCHANGED <<topo, capacity, reuse, autograd, _handle_map, results, last_handle, pc, arg, ret,
                   pending, polled>>

\* Line 812: the thread enters mpi_lib.horovod_torch_join(device).
join_call(r, device) ==
    /\ job.phase[r + 1] = "running"
    /\ ~job.waiting[r + 1]
    /\ job' = [job EXCEPT !.phase[r + 1] = "blocked", !.order = Append(job.order, r)]
    /\ UNCHANGED <<topo, capacity, reuse, autograd, _handle_map, results, last_handle, pc, arg, ret,
                   pending, polled>>

\* A join that returns the id of the calling rank.
join_return_own_rank(r) ==
    /\ job.phase[r + 1] = "blocked"
    /\ AllJoined
    /\ job' = [job EXCEPT !.phase[r + 1] = "returned", !.value[r + 1] = r]
    /\ UNCHANGED <<topo, capacity, reuse, autograd, _handle_map, results, last_handle, pc, arg, ret,
                   pending, polled>>

\* Line 812: return mpi_lib.horovod_torch_join(device)
join_return(r) ==
    /\ job.phase[r + 1] = "blocked"
    /\ AllJoined
    /\ job' = [job EXCEPT !.phase[r + 1] = "returned", !.value[r + 1] = LastJoined]
    /\ UNCHANGED <<topo, capacity, reuse, autograd, _handle_map, results, last_handle, pc, arg, ret,
                   pending, polled>>

\* Lines 813-814: the library raised RuntimeError inside join.
join_raise(r) ==
    /\ job.phase[r + 1] = "blocked"
    /\ job' = [job EXCEPT !.phase[r + 1] = "raised",
                          !.exc[r + 1] = Reraised("RuntimeError")]
    /\ UNCHANGED <<topo, capacity, reuse, autograd, _handle_map, results, last_handle, pc, arg, ret,
                   pending, polled>>

\* --------------------------------------------------------- specifications
\* ----------------------------------------------------- autograd functions
\* A tensor is the sequence of its rows along axis 0; ranks are numbered from
\* 0 and what rank r holds is element r + 1 of a sequence over the ranks.
\* tensor.narrow(0, start, length)
Narrow(tensor, start, length) == SubSeq(tensor, start + 1, start + length)
\* tensor * c
Scale(tensor, c) == [p \in DOMAIN tensor |-> tensor[p] * c]
\* torch.ones(n) * c
Ones(n, c) == [p \in 1..n |-> c]

RECURSIVE Concat(_)
Concat(tensors) ==
    IF tensors = <<>> THEN <<>> ELSE Head(tensors) \o Concat(Tail(tensors))

\* The split-size argument of an all-to-all: None, a list or a tensor.
NoSplits == [kind |-> "None", data |-> <<>>]
Splits(kind, data) == [kind |-> kind, data |-> data]

\* The context object of an autograd function.
Ctx(fn, op, prescale_factor, postscale_factor, dim, root_rank, tensor, splits) ==
    [fn |-> fn, op |-> op, prescale_factor |-> prescale_factor,
     postscale_factor |-> postscale_factor, dim |-> dim, root_rank |-> root_rank,
     tensor |-> tensor, splits |-> splits]
NoCtx == Ctx("none", "", 0, 0, 0, -1, <<>>, NoSplits)

\* The job a differentiable collective runs in: the collective, this rank,
\* the rows of the input of each rank, the root of a broadcast, the split
\* sizes each rank gave to an all-to-all, the op and factors of a reduce.
World(fn, r, rows, root, splits, op, prescale_factor, postscale_factor) ==
    [fn |-> fn, rank |-> r, rows |-> rows, root |-> root, splits |-> splits, op |-> op,
     prescale_factor |-> prescale_factor, postscale_factor |-> postscale_factor]
NoWorld == World("none", 0, <<>>, -1, <<>>, "", 0, 0)

\* A call of a differentiable collective made by a backward rule.
Call(fn, op, prescale_factor, postscale_factor) ==
    [fn |-> fn, op |-> op, prescale_factor |-> prescale_factor,
     postscale_factor |-> postscale_factor]

\* What forward or backward returned or raised, and the calls it made.
Returned(fn, phase, calls, recvsplits, value) ==
    [fn |-> fn, phase |-> phase, exc |-> "", calls |-> calls,
     recvsplits |-> recvsplits, value |-> value]
Raised(fn, phase, exc, calls) ==
    [fn |-> fn, phase |-> phase, exc |-> exc, calls |-> calls,
     recvsplits |-> <<>>, value |-> <<>>]
NoGrad == Returned("none", "none", <<>>, <<>>, <<>>)

rank == world.rank

\* The input of rank j - 1, and the gradient of its output that autograd
\* hands to backward on that rank: n rows that differ from row to row and
\* from rank to rank.
Input(j) == [p \in 1..world.rows[j] |-> 100 * j + p]
OutputGradient(j, n) == [p \in 1..n |-> 10 * j + p]

\* What the library computes (not in this module): the elementwise sum of
\* the tensors of the ranks; their concatenation in rank order; for rank k
\* of an all-to-all, the concatenation in rank order of the slice each rank
\* cut for k out of its tensor.
AllreduceSum(tensors) ==
    [p \in DOMAIN tensors[1] |-> SeqSum([j \in DOMAIN tensors |-> tensors[j][p]])]
AllgatherValue(tensors) == Concat(tensors)
AlltoallValue(tensors, splits, k) ==
    Concat([i \in DOMAIN tensors |->
               Narrow(tensors[i], SeqSum(SubSeq(splits[i], 1, k)), splits[i][k + 1])])
\* A reduce under Sum multiplies by the factors; under another op its value
\* is left symbolic.
AllreduceValue(tensors, op, prescale_factor, postscale_factor) ==
    IF op = Sum THEN Scale(AllreduceSum(tensors), prescale_factor * postscale_factor)
    ELSE <<[op |-> op, of |-> tensors, scale |-> prescale_factor * postscale_factor]>>

\* The tensors the ranks pass to one collective call: that of rank j - 1 is
\* element j.
Inputs == [j \in 1..size |-> Input(j)]
OutputGradients(n) == [j \in 1..size |-> OutputGradient(j, n)]
\* Member g of the group of rank j - 1, and of the gradients of its outputs.
GroupInputs(g) == [j \in 1..size |-> Scale(Input(j), g)]
GroupOutputGradients(g, n) == [j \in 1..size |-> Scale(OutputGradient(j, n), g)]

\* What a differentiable collective returned or raised.
Done(value) == [exc |-> "", value |-> value]
Failed(exc) == [exc |-> exc, value |-> <<>>]

\* allreduce: HorovodAllreduce.apply under the default compression, which
\* leaves the tensor as it is.
allreduce(tensors, op, prescale_factor, postscale_factor) ==
    LET policy == _allreduce_policy(CpuTensor, op) IN
    IF policy.exc # "" THEN Failed(policy.exc)
    ELSE Done(AllreduceValue(tensors, op, prescale_factor, postscale_factor))

\* grouped_allreduce: HorovodGroupedAllreduce.apply, one output per member.
grouped_allreduce(groups, op, prescale_factor, postscale_factor) ==
    LET policy == _grouped_allreduce_policy(<<CpuTensor>>, op) IN
    IF policy.exc # "" THEN Failed(policy.exc)
    ELSE Done([g \in DOMAIN groups |->
                  AllreduceValue(groups[g], op, prescale_factor, postscale_factor)])

\* What forward or backward leaves in grad.
Finish(fn, phase, calls, recvsplits, result) ==
    IF result.exc # "" THEN Raised(fn, phase, result.exc, calls)
    ELSE Returned(fn, phase, calls, recvsplits, result.value)

\* backward runs on the context of a forward that returned.
Forwarded(fn) == grad.fn = fn /\ grad.phase = "forward" /\ grad.exc = "" /\ ctx.fn = fn

HorovodAllreduce_forward ==
    /\ world.fn = "allreduce"
    /\ grad = NoGrad
    /\ ctx' = Ctx("allreduce", world.op, world.prescale_factor, world.postscale_factor,
                  0, -1, <<>>, NoSplits)
    /\ grad' = Finish("allreduce", "forward", <<>>, <<>>,
                      allreduce(Inputs, world.op, world.prescale_factor,
                                world.postscale_factor))
    /\ UNCHANGED <<topo, capacity, reuse, job, world, _handle_map, results, last_handle, pc, arg, ret,
                   pending, polled>>

\* A backward rule that re-reduces with Sum whatever the forward op was.
HorovodAllreduce_backward_sum ==
    /\ Forwarded("allreduce")
    /\ LET grad_output == OutputGradients(world.rows[rank + 1])
           reduced == allreduce(grad_output, Sum, ctx.prescale_factor,
                                ctx.postscale_factor)
       IN  grad' = Finish("allreduce", "backward",
                          <<Call("allreduce", Sum, ctx.prescale_factor,
                                 ctx.postscale_factor)>>, <<>>,
                          IF reduced.exc # "" THEN reduced
                          ELSE Done(<<reduced.value, None, None, None, None, None>>))
    /\ UNCHANGED <<topo, capacity, reuse, job, world, ctx, _handle_map, results, last_handle, pc, arg,
                   ret, pending, polled>>

HorovodAllreduce_backward ==
    /\ Forwarded("allreduce")
    /\ LET grad_output == OutputGradients(world.rows[rank + 1])
           reduced == allreduce(grad_output, ctx.op, ctx.prescale_factor,
                                ctx.postscale_factor)
       IN  grad' = Finish("allreduce", "backward",
                          <<Call("allreduce", ctx.op, ctx.prescale_factor,
                                 ctx.postscale_factor)>>, <<>>,
                          IF reduced.exc # "" THEN reduced
                          ELSE Done(<<reduced.value, None, None, None, None, None>>))
    /\ UNCHANGED <<topo, capacity, reuse, job, world, ctx, _handle_map, results, last_handle, pc, arg,
                   ret, pending, polled>>

HorovodGroupedAllreduce_forward ==
    /\ world.fn = "grouped_allreduce"
    /\ grad = NoGrad
    /\ ctx' = Ctx("grouped_allreduce", world.op, world.prescale_factor,
                  world.postscale_factor, 0, -1, <<>>, NoSplits)
    /\ grad' = Finish("grouped_allreduce", "forward", <<>>, <<>>,
                      grouped_allreduce([g \in 1..MaxGroup |-> GroupInputs(g)], world.op,
                                        world.prescale_factor, world.postscale_factor))
    /\ UNCHANGED <<topo, capacity, reuse, job, world, _handle_map, results, last_handle, pc, arg, ret,
                   pending, polled>>

HorovodGroupedAllreduce_backward ==
    /\ Forwarded("grouped_allreduce")
    /\ LET grad_output ==
               [g \in 1..MaxGroup |-> GroupOutputGradients(g, world.rows[rank + 1])]
           grad_reduced == grouped_allreduce(grad_output, ctx.op, ctx.prescale_factor,
                                             ctx.postscale_factor)
       IN  grad' = Finish("grouped_allreduce", "backward",
                          <<Call("grouped_allreduce", ctx.op, ctx.prescale_factor,
                                 ctx.postscale_factor)>>, <<>>,
                          IF grad_reduced.exc # "" THEN grad_reduced
                          ELSE Done(<<None, None, None, None, None>> \o grad_reduced.value))
    /\ UNCHANGED <<topo, capacity, reuse, job, world, ctx, _handle_map, results, last_handle, pc, arg,
                   ret, pending, polled>>

\* allgather: HorovodAllgather.apply.
allgather(tensors) == Done(AllgatherValue(tensors))

HorovodAllgather_forward ==
    /\ world.fn = "allgather"
    /\ grad = NoGrad
    /\ ctx' = Ctx("allgather", "", 0, 0, Len(Input(rank + 1)), -1, <<>>, NoSplits)
    /\ grad' = Finish("allgather", "forward", <<>>, <<>>, allgather(Inputs))
    /\ UNCHANGED <<topo, capacity, reuse, job, world, _handle_map, results, last_handle, pc, arg, ret,
                   pending, polled>>

\* An offset that leaves out the rows of rank 0.
GatherOffsetSkipsFirst(dim, r) ==
    IF r # 0 THEN SeqSum(Narrow(dim, 1, r - 1)) ELSE 0

\* torch.sum(dim.narrow(0, 0, r)).item() if r != 0 else 0
GatherOffset(dim, r) ==
    IF r # 0 THEN SeqSum(Narrow(dim, 0, r)) ELSE 0

\* Every rank runs backward on the gradient of the gathered tensor and on
\* its own ctx.dim, the extent it contributed.
HorovodAllgather_backward ==
    /\ Forwarded("allgather")
    /\ LET grad_output == OutputGradients(SeqSum(world.rows))
           grad_reduced == allreduce(grad_output, Sum, 1, 1)
           dim_t == [j \in 1..size |-> <<world.rows[j]>>]
           dim == allgather(dim_t).value
           r == rank
           offset == GatherOffset(dim, r)
       IN  grad' = Finish("allgather", "backward",
                          <<Call("allreduce", Sum, 1, 1), Call("allgather", "", 0, 0)>>,
                          <<>>,
                          IF grad_reduced.exc # "" THEN grad_reduced
                          ELSE Done(<<Narrow(grad_reduced.value, offset, ctx.dim), None>>))
    /\ UNCHANGED <<topo, capacity, reuse, job, world, ctx, _handle_map, results, last_handle, pc, arg,
                   ret, pending, polled>>

\* broadcast: HorovodBroadcast.apply, every rank gets the tensor of the root.
broadcast(tensors, root_rank) == Done(tensors[root_rank + 1])

HorovodBroadcast_forward ==
    /\ world.fn = "broadcast"
    /\ grad = NoGrad
    /\ ctx' = Ctx("broadcast", "", 0, 0, 0, world.root, <<>>, NoSplits)
    /\ grad' = Finish("broadcast", "forward", <<>>, <<>>, broadcast(Inputs, world.root))
    /\ UNCHANGED <<topo, capacity, reuse, job, world, _handle_map, results, last_handle, pc, arg, ret,
                   pending, polled>>

\* A gradient that is zeroed on the root and kept everywhere else.
RootGradientInverted(grad_reduced, r, root_rank) ==
    IF r = root_rank THEN Scale(grad_reduced, 0) ELSE grad_reduced

\* if rank() != ctx.root_rank: grad_reduced *= 0
RootGradient(grad_reduced, r, root_rank) ==
    IF r # root_rank THEN Scale(grad_reduced, 0) ELSE grad_reduced

HorovodBroadcast_backward ==
    /\ Forwarded("broadcast")
    /\ LET grad_output == OutputGradients(world.rows[rank + 1])
           grad_reduced == allreduce(grad_output, Sum, 1, 1)
       IN  grad' = Finish("broadcast", "backward", <<Call("allreduce", Sum, 1, 1)>>, <<>>,
                          IF grad_reduced.exc # "" THEN grad_reduced
                          ELSE Done(<<RootGradient(grad_reduced.value, rank, ctx.root_rank),
                                      None, None>>))
    /\ UNCHANGED <<topo, capacity, reuse, job, world, ctx, _handle_map, results, last_handle, pc, arg,
                   ret, pending, polled>>

\* The send sizes the library uses for one rank: those it was given or, when
\* it was given none, the extent split equally by the number of ranks.
SendSplits(splits, extent) ==
    IF splits.kind = "None" THEN Ones(size, extent \div size) ELSE splits.data

\* alltoall: HorovodAlltoall.apply on rank k. alltoall_async asks its tensor
\* argument for a new tensor, which only a tensor has.
alltoall(kind, tensors, splits, k) ==
    IF kind # "Tensor" THEN Failed("AttributeError")
    ELSE Done(AlltoallValue(tensors, splits, k))

\* The splits argument rank j - 1 gave to the forward call.
SplitsOf(j) ==
    IF world.splits.kind = "None" THEN NoSplits
    ELSE Splits(world.splits.kind, world.splits.data[j])

\* The extent of what forward returned on rank j - 1.
OutputExtent(j) ==
    SeqSum([i \in 1..size |-> SendSplits(SplitsOf(i), Len(Input(i)))[j]])

HorovodAlltoall_forward ==
    /\ world.fn = "alltoall"
    /\ grad = NoGrad
    /\ ctx' = Ctx("alltoall", "", 0, 0, 0, -1, Input(rank + 1), SplitsOf(rank + 1))
    /\ grad' = Finish("alltoall", "forward", <<>>, <<>>,
                      alltoall("Tensor", Inputs,
                               [j \in 1..size |-> SendSplits(SplitsOf(j), Len(Input(j)))],
                               rank))
    /\ UNCHANGED <<topo, capacity, reuse, job, world, _handle_map, results, last_handle, pc, arg, ret,
                   pending, polled>>

\* The first half of backward on rank k, whose context holds the tensor and
\* the splits of its forward call: the receive splits.
recvsplits(k) ==
    LET ones == [j \in 1..size |-> Ones(size, 1)] IN
    IF SplitsOf(k + 1).kind # "None"
    THEN alltoall(SplitsOf(k + 1).kind, [j \in 1..size |-> SplitsOf(j).data], ones, k)
    ELSE LET splits_equal == [j \in 1..size |-> Ones(size, Len(Input(j)) \div size)]
         IN  alltoall("Tensor", splits_equal, ones, k)

HorovodAlltoall_backward ==
    /\ Forwarded("alltoall")
    /\ LET received == recvsplits(rank)
           grad_output == [j \in 1..size |-> OutputGradient(j, OutputExtent(j))]
           exchanged == alltoall("Tensor", grad_output,
                                 [j \in 1..size |-> recvsplits(j - 1).value], rank)
       IN  grad' = IF received.exc # ""
                   THEN Raised("alltoall", "backward", received.exc,
                               <<Call("alltoall", "", 0, 0)>>)
                   ELSE Returned("alltoall", "backward",
                                 <<Call("alltoall", "", 0, 0), Call("alltoall", "", 0, 0)>>,
                                 received.value, <<exchanged.value, None, None>>)
    /\ UNCHANGED <<topo, capacity, reuse, job, world, ctx, _handle_map, results, last_handle, pc, arg,
                   ret, pending, polled>>

InitRest ==
    /\ _handle_map = <<>>
    /\ results = <<>>
    /\ last_handle = 0
    /\ pc = [t \in Threads |-> "idle"]
    /\ arg = [t \in Threads |-> 0]
    /\ ret = NoRet
    /\ pending = <<>>
    /\ polled = {}
    /\ ctx = NoCtx
    /\ world = NoWorld
    /\ grad = NoGrad
    /\ job = NoJob

\* The handle-table specification runs on one topology: two nodes of two
\* ranks, built with NCCL and without ROCm, accelerators present.
TableTopology == Facts(<<2, 2>>, FALSE, TRUE, TRUE)

Init ==
    /\ topo = TableTopology
    /\ capacity = MaxHandles
    /\ reuse = FALSE
    /\ InitRest

\* The inputs of the calls. A group is a tensor followed by tensors on the
\* other device.
GroupOf(tensor) ==
    [i \in 1..MaxGroup |->
        IF i = 1 THEN tensor
        ELSE IF tensor.device = "cpu" THEN CudaTensor ELSE CpuTensor]
SplitsArgs ==
    { [kind |-> "None", id |-> 0], [kind |-> "list", id |-> 0], [kind |-> "Tensor", id |-> 5] }
TableTensors == {CpuTensor}

Next ==
    \/ \E h \in Handles : BackendComplete(h)
    \/ \E t \in Threads, tensor \in TableTensors :
         allreduce_async(t, tensor, None, Average, 1, 1)
    \/ \E t \in Threads, tensor \in TableTensors :
         allreduce_async_(t, tensor, None, Average, 1, 1)
    \/ \E t \in Threads, tensor \in TableTensors :
         grouped_allreduce_async(t, GroupOf(tensor), None, Average, 1, 1)
    \/ \E t \in Threads, tensor \in TableTensors :
         grouped_allreduce_async_(t, GroupOf(tensor), None, Average, 1, 1)
    \/ \E t \in Threads, tensor \in TableTensors :
         allgather_async(t, tensor, None)
    \/ \E t \in Threads, tensor \in TableTensors :
         broadcast_async(t, tensor, 0, None)
    \/ \E t \in Threads, tensor \in TableTensors :
         broadcast_async_(t, tensor, 0, None)
    \/ \E t \in Threads, tensor \in TableTensors, splits \in SplitsArgs :
         alltoall_async(t, tensor, splits, None)
    \/ \E t \in Threads, h \in Handles : poll(t, h)
    \/ \E t \in Threads, h \in Handles : NotBeingSynchronized(t, h) /\ synchronize_test(t, h)
    \/ \E t \in Threads : synchronize_wait(t)
    \/ \E t \in Threads : synchronize_pop(t)

Spec == Init /\ [][Next]_vars

\* The policy specification: every topology, every op, the allreduce and
\* grouped allreduce calls of one thread.
InitPolicy ==
    /\ topo \in Topologies
    /\ capacity = MaxHandles
    /\ reuse = FALSE
    /\ InitRest

PolicyTensors == {CpuTensor, CudaTensor, StridedCudaTensor}

NextPolicy ==
    \/ \E tensor \in PolicyTensors, op \in Ops :
         allreduce_async(1, tensor, None, op, 1, 1)
    \/ \E tensor \in PolicyTensors, op \in Ops :
         grouped_allreduce_async(1, GroupOf(tensor), None, op, 1, 1)

SpecPolicy == InitPolicy /\ [][NextPolicy]_vars

\* The specification of concurrent callers: the threads of the rank submit
\* in-place reduces and all-to-alls of one tensor, up to MaxOutstanding
\* handles, and synchronize them.
InitConcurrent ==
    /\ topo = TableTopology
    /\ capacity = MaxOutstanding
    /\ reuse = FALSE
    /\ InitRest

NextConcurrent ==
    \/ \E h \in 1..MaxOutstanding : BackendComplete(h)
    \/ \E t \in Threads : allreduce_async_(t, CpuTensor, None, Average, 1, 1)
    \/ \E t \in Threads : alltoall_async(t, CpuTensor, [kind |-> "None", id |-> 0], None)
    \/ \E t \in Threads, h \in 1..MaxOutstanding : NotBeingSynchronized(t, h) /\ synchronize_test(t, h)
    \/ \E t \in Threads : synchronize_wait(t)
    \/ \E t \in Threads : synchronize_pop(t)

SpecConcurrent == InitConcurrent /\ [][NextConcurrent]_vars

\* The specification of operation keys: the policy specification, with the
\* name of the operation given or omitted.
Names == {None, "grad"}

NextKey ==
    \/ \E tensor \in PolicyTensors, op \in Ops, name \in Names :
         allreduce_async(1, tensor, name, op, 1, 1)
    \/ \E tensor \in PolicyTensors, op \in Ops, name \in Names :
         grouped_allreduce_async(1, GroupOf(tensor), name, op, 1, 1)

SpecKey == InitPolicy /\ [][NextKey]_vars

\* The dispatch specification: one thread submits each of the five
\* collectives with each tensor and op, on a cluster of a node of two ranks
\* and a node of one rank, built with ROCm and NCCL.
DispatchTopology == Facts(<<2, 1>>, TRUE, TRUE, TRUE)

InitDispatch ==
    /\ topo = DispatchTopology
    /\ capacity = MaxHandles
    /\ reuse = FALSE
    /\ InitRest

\* A list of tensors: the tensor followed by tensors on the other device, or
\* followed by non-contiguous tensors.
DispatchGroups(tensor) ==
    { GroupOf(tensor),
      [i \in 1..MaxGroup |-> IF i = 1 THEN tensor ELSE StridedCudaTensor] }

NextDispatch ==
    \/ \E tensor \in Tensors, op \in Ops :
         allreduce_async(1, tensor, None, op, 1, 1)
    \/ \E tensor \in Tensors, op \in Ops :
         \E tensors \in DispatchGroups(tensor) :
             grouped_allreduce_async(1, tensors, None, op, 1, 1)
    \/ \E tensor \in Tensors : allgather_async(1, tensor, None)
    \/ \E tensor \in Tensors : broadcast_async(1, tensor, 0, None)
    \/ \E tensor \in Tensors, splits \in SplitsArgs : alltoall_async(1, tensor, splits, None)

SpecDispatch == InitDispatch /\ [][NextDispatch]_vars

\* The specification of the variants: one thread submits each tensor, with
\* each op, to each collective that has an in-place variant, in both
\* variants, and synchronizes.
VariantTensors == Tensors
VariantOps == Ops

NextVariants ==
    \/ \E h \in Handles : BackendComplete(h)
    \/ \E tensor \in VariantTensors, op \in VariantOps :
         allreduce_async(1, tensor, None, op, 1, 1)
    \/ \E tensor \in VariantTensors, op \in VariantOps :
         allreduce_async_(1, tensor, None, op, 1, 1)
    \/ \E tensor \in VariantTensors, op \in VariantOps :
         grouped_allreduce_async(1, GroupOf(tensor), None, op, 1, 1)
    \/ \E tensor \in VariantTensors, op \in VariantOps :
         grouped_allreduce_async_(1, GroupOf(tensor), None, op, 1, 1)
    \/ \E tensor \in VariantTensors : broadcast_async(1, tensor, 0, None)
    \/ \E tensor \in VariantTensors : broadcast_async_(1, tensor, 0, None)
    \/ \E h \in Handles : NotBeingSynchronized(1, h) /\ synchronize_test(1, h)
    \/ synchronize_wait(1)
    \/ synchronize_pop(1)

SpecVariants == InitDispatch /\ [][NextVariants]_vars

\* ---- the differentiable collectives: one forward and one backward pass of
\* one collective on one rank of a job; every rank of the job makes the same
\* calls on its own tensors. The job runs on one node, without accelerators.
Factors == {1, 2}

\* A reduce or a grouped reduce: every rank passes tensors of one shape.
ReduceWorld ==
    \E n \in 1..MaxRanks, fn \in {"allreduce", "grouped_allreduce"}, e \in 0..MaxRows,
       op \in Ops, pre \in Factors, post \in Factors :
        \E r \in 0..(n - 1) :
            world = World(fn, r, Ones(n, e), -1, NoSplits, op, pre, post)

\* A gather: every rank has its own axis-0 extent.
GatherWorld ==
    \E n \in 1..MaxRanks :
        \E r \in 0..(n - 1), rows \in [1..n -> 0..MaxRows] :
            world = World("allgather", r, rows, -1, NoSplits, "", 0, 0)

\* A broadcast from any root: every rank passes a tensor of one shape.
BroadcastWorld ==
    \E n \in 1..MaxRanks, e \in 0..MaxRows :
        \E r \in 0..(n - 1), root \in 0..(n - 1) :
            world = World("broadcast", r, Ones(n, e), root, NoSplits, "", 0, 0)

\* An all-to-all with a split vector, a list or a tensor, on every rank: the
\* extent of a rank is the sum of its vector.
ExchangeWorld ==
    \E n \in 1..MaxExchange, kind \in {"list", "Tensor"} :
        \E r \in 0..(n - 1), S \in [1..n -> [1..n -> 0..MaxSplit]] :
            world = World("alltoall", r, [i \in 1..n |-> SeqSum(S[i])], -1,
                          Splits(kind, S), "", 0, 0)

\* An all-to-all without split vectors: the extent of a rank is a multiple of
\* the number of ranks.
EqualExchangeWorld ==
    \E n \in 1..MaxExchange :
        \E r \in 0..(n - 1), e \in [1..n -> 0..MaxSplit] :
            world = World("alltoall", r, [i \in 1..n |-> n * e[i]], -1, NoSplits,
                          "", 0, 0)

InitGrad ==
    /\ \/ ReduceWorld
       \/ GatherWorld
       \/ BroadcastWorld
       \/ ExchangeWorld
       \/ EqualExchangeWorld
    /\ topo = Facts(<<Len(world.rows)>>, FALSE, FALSE, FALSE)
    /\ capacity = MaxHandles
    /\ reuse = FALSE
    /\ _handle_map = <<>>
    /\ results = <<>>
    /\ last_handle = 0
    /\ pc = [t \in Threads |-> "idle"]
    /\ arg = [t \in Threads |-> 0]
    /\ ret = NoRet
    /\ pending = <<>>
    /\ polled = {}
    /\ ctx = NoCtx
    /\ grad = NoGrad
    /\ job = NoJob

NextGrad ==
    \/ HorovodAllreduce_forward
    \/ HorovodAllreduce_backward
    \/ HorovodGroupedAllreduce_forward
    \/ HorovodGroupedAllreduce_backward
    \/ HorovodAllgather_forward
    \/ HorovodAllgather_backward
    \/ HorovodBroadcast_forward
    \/ HorovodBroadcast_backward
    \/ HorovodAlltoall_forward
    \/ HorovodAlltoall_backward

SpecGrad == InitGrad /\ [][NextGrad]_vars

\* ---- join: the ranks of one job, each issuing collectives and then calling
\* join, against the library.
InitJoin ==
    /\ \E n \in 1..MaxJoinRanks :
         /\ topo = Facts(<<n>>, FALSE, FALSE, FALSE)
         /\ job = Job([r \in 1..n |-> "running"], [r \in 1..n |-> FALSE],
                      [r \in 1..n |-> 0], [r \in 1..n |-> -1], [r \in 1..n |-> ""], <<>>)
    /\ capacity = MaxHandles
    /\ reuse = FALSE
    /\ _handle_map = <<>>
    /\ results = <<>>
    /\ last_handle = 0
    /\ pc = [t \in Threads |-> "idle"]
    /\ arg = [t \in Threads |-> 0]
    /\ ret = NoRet
    /\ pending = <<>>
    /\ polled = {}
    /\ ctx = NoCtx
    /\ world = NoWorld
    /\ grad = NoGrad

NextJoin ==
    \/ \E r \in Ranks : IssueCollective(r)
    \/ \E r \in Ranks : CompleteCollective(r)
    \/ \E r \in Ranks, device \in {-1, 0} : join_call(r, device)
    \/ \E r \in Ranks : join_return(r)
    \/ \E r \in Ranks : join_raise(r)

\* The ranks and the library keep running: a step that can be taken is taken.
SpecJoin == InitJoin /\ [][NextJoin]_vars /\ WF_vars(NextJoin)

\* ---- registration against a library that may break its contract and hand
\* out a handle that still has an entry.
InitReuse ==
    /\ topo = DispatchTopology
    /\ capacity = MaxHandles
    /\ reuse = TRUE
    /\ InitRest

NextReuse ==
    \/ \E h \in Handles : BackendComplete(h)
    \/ \E tensor \in {CpuTensor, CudaTensor} : allreduce_async(1, tensor, None, Sum, 1, 1)
    \/ \E tensor \in {CpuTensor, CudaTensor} :
         grouped_allreduce_async(1, GroupOf(tensor), None, Sum, 1, 1)
    \/ \E h \in Handles : NotBeingSynchronized(1, h) /\ synchronize_test(1, h)
    \/ synchronize_wait(1)
    \/ synchronize_pop(1)

SpecReuse == InitReuse /\ [][NextReuse]_vars

\* ---- callers that synchronize the same handle at the same time: between
\* the membership test of one and its pop, the other runs.
NextRace ==
    \/ \E h \in Handles : BackendComplete(h)
    \/ \E tensor \in {CpuTensor, CudaTensor} : allreduce_async(1, tensor, None, Sum, 1, 1)
    \/ \E tensor \in {CpuTensor, CudaTensor}, root_rank \in {0, 1} :
         broadcast_async_(1, tensor, root_rank, None)
    \/ \E t \in Threads, h \in Handles : synchronize_test(t, h)
    \/ \E t \in Threads : synchronize_wait(t)
    \/ \E t \in Threads : synchronize_pop(t)

SpecRace == InitDispatch /\ [][NextRace]_vars

\* ------------------------------------------------------------------ claims
\* Handles the library has handed out whose output a synchronize returned.
Consumed == (1..last_handle) \ DOMAIN pending

\* The operands an entry of the handle table holds.
EntryOperands(entry) ==
    Operands(entry[1], IF Len(entry) = 3 THEN entry[2] ELSE <<>>, entry[Len(entry)])

\* C1: in every reachable state the handles that have an entry in the handle
\* table are exactly the handles returned by a successful submission and not
\* yet consumed by a successful synchronize, and each entry holds the input,
\* the output and (all-to-all) the split-size tensor submitted with that call.
C1_EntriesArePending ==
    /\ DOMAIN _handle_map = DOMAIN pending
    /\ DOMAIN pending \subseteq 1..last_handle
    /\ \A h \in DOMAIN _handle_map :
         /\ Len(_handle_map[h]) = IF pending[h].splits = <<>> THEN 2 ELSE 3
         /\ EntryOperands(_handle_map[h]) = pending[h]

\* A synchronize has returned the output of a handle, whose entry is gone.
C1_Witness ==
    /\ ret.call = "synchronize"
    /\ ret.value = "tensor"
    /\ ret.handle \in Consumed
    /\ ret.handle \notin DOMAIN _handle_map

\* C2: synchronize(h) on a handle without an entry returns None, does not
\* fail, does not call the library's wait and leaves the handle table as it
\* is; an output is only ever returned for a handle not consumed before.
C2_AbsentStep ==
    \A t \in Threads, h \in Handles :
        (synchronize_test(t, h) /\ h \notin DOMAIN _handle_map) =>
            /\ ret'.call = "synchronize" /\ ret'.handle = h
            /\ ret'.value = None /\ ret'.exc = ""
            /\ pc'[t] = "idle"
            /\ results' = results
            /\ _handle_map' = _handle_map
C2_ReturnOnce ==
    \A t \in Threads :
        synchronize_pop(t) => (ret'.value = "tensor" => arg[t] \notin Consumed)
C2_SynchronizeAbsentIsNoOp == [][C2_AbsentStep /\ C2_ReturnOnce]_vars

\* A synchronize on a consumed handle has returned None.
C2_Witness ==
    /\ ret.call = "synchronize"
    /\ ret.value = None /\ ret.exc = ""
    /\ ret.handle \in Consumed

\* C3: synchronize(h) on a handle with an entry returns only after the
\* library completed h; on success it removes the entry of h and returns the
\* output operand registered for h; on failure it raises HorovodInternalError
\* and returns nothing.
C3_ReturnStep ==
    \A t \in Threads :
        (synchronize_pop(t) /\ arg[t] \in DOMAIN pending) =>
            /\ results[arg[t]].status = "done"
            /\ ret'.exc = "" /\ ret'.value = "tensor"
            /\ ret'.output = pending[arg[t]].output
            /\ arg[t] \notin DOMAIN _handle_map'
C3_FailStep ==
    \A t \in Threads :
        (synchronize_wait(t) /\ Live(arg[t]) /\ results[arg[t]].status = "failed") =>
            /\ ret'.call = "synchronize" /\ ret'.handle = arg[t]
            /\ ret'.exc = "HorovodInternalError" /\ ret'.value = None
            /\ pc'[t] = "idle"
C3_NoEarlyReturn ==
    \A t \in Threads :
        (pc[t] = "wait" /\ pc'[t] # "wait" /\ Live(arg[t])) =>
            results[arg[t]].status # "inflight"
C3_SynchronizeReturnsOutput == [][C3_ReturnStep /\ C3_FailStep /\ C3_NoEarlyReturn]_vars

\* A synchronize has returned the freshly allocated output of an all-to-all
\* or other out-of-place call.
C3_Witness ==
    /\ ret.call = "synchronize"
    /\ ret.value = "tensor"
    /\ ret.output = <<NewBuffer(ret.handle, 1)>>

\* C4: once poll(h) has returned True, a synchronize(h) does not wait: the
\* library's wait finds h completed. poll is enabled whatever the state of h,
\* returns True exactly when the library has completed h, and leaves the
\* handle table as it is.
C4_PolledIsComplete ==
    \A h \in polled : Live(h) /\ results[h].status # "inflight"
C4_PollNeverBlocks ==
    \A t \in Threads, h \in Handles :
        (pc[t] = "idle" /\ Live(h)) => ENABLED poll(t, h)
C4_PollStep ==
    \A t \in Threads, h \in Handles :
        poll(t, h) =>
            /\ (ret'.value = "True") = (results[h].status \in {"done", "failed"})
            /\ ret'.value \in {"True", "False"}
            /\ _handle_map' = _handle_map
C4_PollThenSynchronize ==
    /\ [](C4_PolledIsComplete /\ C4_PollNeverBlocks)
    /\ [][C4_PollStep]_vars

\* A thread is inside synchronize, before the wait, on a handle for which
\* poll has returned True.
C4_Witness ==
    \E t \in Threads : pc[t] = "wait" /\ arg[t] \in polled

\* ---------------------------------------------------- claims on the policy
ReduceCalls ==
    {"allreduce_async", "allreduce_async_",
     "grouped_allreduce_async", "grouped_allreduce_async_"}
IsPowerOfTwo(n) == \E k \in 0..n : n = 2^k
\* world_size / local_size is a power of two
RatioIsPowerOfTwo == \E k \in 0..topo.size : topo.size = (2^k) * topo.local_size
DeviceOf(id) == (CHOOSE x \in Tensors : x.id = id).device
Valid(id) == id \in {CpuTensor.id, CudaTensor.id}
\* An Adasum reduce or grouped reduce of a (first) tensor on the device.
AdasumOn(r, devices) ==
    /\ r.call \in ReduceCalls
    /\ r.request.op = Adasum
    /\ DeviceOf(r.request.tensor) \in devices
\* The call raised before it reached the library, and registered nothing.
RefusedBy(r, exc) ==
    r.exc = exc /\ ~r.sent.called /\ r.handle = 0 /\ r.value = None
TableUnchanged ==
    /\ _handle_map' = _handle_map
    /\ results' = results
    /\ last_handle' = last_handle

\* C5: a reduce or grouped reduce with op Average is never refused by the
\* policy; without ROCm the library receives op Average and divisor 1, with
\* ROCm it receives op Sum and divisor size(), whatever the size.
C5_AverageDivisor ==
    (ret.call \in ReduceCalls /\ ret.request.op = Average) =>
        /\ ret.exc # "NotImplementedError"
        /\ Valid(ret.request.tensor) => ret.sent.called
        /\ ret.sent.called =>
             IF topo.rocm
             THEN ret.sent.op = Sum /\ ret.sent.divisor = topo.size
             ELSE ret.sent.op = Average /\ ret.sent.divisor = 1

\* A grouped reduce with op Average reached the library of a ROCm build on a
\* cluster of three ranks or more.
C5_Witness ==
    /\ ret.call = "grouped_allreduce_async"
    /\ ret.request.op = Average
    /\ ret.sent.called /\ ret.sent.op = Sum /\ ret.sent.divisor = topo.size
    /\ topo.rocm /\ topo.size >= 3

\* C6: an Adasum reduce of a CPU tensor raises NotImplementedError, calls no
\* library function and registers no handle when size() is no power of two;
\* when size() is a power of two it is dispatched with divisor 1.
C6_Step ==
    AdasumOn(ret', {"cpu"}) =>
        IF ~IsPowerOfTwo(topo.size)
        THEN RefusedBy(ret', "NotImplementedError") /\ TableUnchanged
        ELSE ret'.sent.called /\ ret'.sent.divisor = 1 /\ ret'.sent.op = Adasum
C6_AdasumOnCpu == [][C6_Step]_vars

\* An Adasum reduce of a CPU tensor was refused while an earlier operation
\* is pending.
C6_Witness ==
    /\ AdasumOn(ret, {"cpu"})
    /\ RefusedBy(ret, "NotImplementedError")
    /\ _handle_map # <<>>

\* C7: an Adasum reduce of an accelerator tensor, with accelerators available
\* and NCCL built, on a heterogeneous cluster raises NotImplementedError: no
\* ValueError of the validation is reported, no library function is called,
\* the handle table is unchanged.
C7_Step ==
    (AdasumOn(ret', {"cuda"}) /\ topo.gpu /\ topo.nccl /\ ~topo.homogeneous) =>
        RefusedBy(ret', "NotImplementedError") /\ TableUnchanged
C7_HeterogeneousRefused == [][C7_Step]_vars

\* An Adasum reduce of a non-contiguous accelerator tensor was refused on a
\* heterogeneous cluster while an earlier operation is pending.
C7_Witness ==
    /\ AdasumOn(ret, {"cuda"})
    /\ ret.request.tensor = StridedCudaTensor.id
    /\ topo.gpu /\ topo.nccl /\ ~topo.homogeneous
    /\ RefusedBy(ret, "NotImplementedError")
    /\ _handle_map # <<>>

\* C8: an Adasum reduce on the GPU path (accelerator tensor, accelerators
\* available, NCCL built, homogeneous cluster) calls the library only if
\* size() / local_size() is a power of two; when it is not, the call raises
\* NotImplementedError and nothing is submitted.
C8_Step ==
    (AdasumOn(ret', {"cuda"}) /\ topo.gpu /\ topo.nccl /\ topo.homogeneous) =>
        IF RatioIsPowerOfTwo
        THEN /\ ret'.exc # "NotImplementedError"
             /\ Valid(ret'.request.tensor) => ret'.sent.called
        ELSE RefusedBy(ret', "NotImplementedError") /\ TableUnchanged
C8_NodesPowerOfTwo == [][C8_Step]_vars

\* An Adasum reduce on the GPU path was refused on a homogeneous cluster of
\* three nodes.
C8_Witness ==
    /\ AdasumOn(ret, {"cuda"})
    /\ topo.gpu /\ topo.nccl /\ topo.homogeneous
    /\ topo.size = 3 * topo.local_size
    /\ RefusedBy(ret, "NotImplementedError")

\* C9: an Adasum reduce off the GPU path (CPU tensor, no accelerator
\* available, or accelerator tensor without NCCL) is refused with
\* NotImplementedError, and never submitted, when size() is no power of two.
C9_OffGpuPathNeedsPowerOfTwo ==
    ( /\ AdasumOn(ret, {"cpu", "cuda"})
      /\ ~(DeviceOf(ret.request.tensor) # "cpu" /\ topo.gpu /\ topo.nccl)
      /\ ~IsPowerOfTwo(topo.size) ) =>
        RefusedBy(ret, "NotImplementedError")

\* C10 as stated: an Adasum reduce of an accelerator tensor without NCCL is
\* not refused, emits the warning, and is dispatched with divisor 1 and op
\* Adasum.
C10_WarnsWithoutNccl ==
    (AdasumOn(ret, {"cuda"}) /\ ~topo.nccl) =>
        /\ ret.exc # "NotImplementedError"
        /\ ret.warned
        /\ ret.sent.called => (ret.sent.divisor = 1 /\ ret.sent.op = Adasum)

\* C10, amended: an Adasum reduce of an accelerator tensor, with accelerators
\* available and without NCCL, is not refused whatever the size: the warning
\* is emitted, the call goes on to the validation, the library receives
\* divisor 1 and op Adasum, and the handle it returns is registered.
C10_Step ==
    (AdasumOn(ret', {"cuda"}) /\ topo.gpu /\ ~topo.nccl) =>
        /\ ret'.exc # "NotImplementedError"
        /\ ret'.warned
        /\ ret'.sent.called = Valid(ret'.request.tensor)
        /\ ret'.sent.called => (ret'.sent.divisor = 1 /\ ret'.sent.op = Adasum)
        /\ ret'.exc = "" =>
             /\ ret'.value = "handle"
             /\ ret'.handle \in DOMAIN _handle_map' \ DOMAIN _handle_map
C10_WarnsWithoutNcclOnGpu == [][C10_Step]_vars

\* The warning was emitted and the handle registered on a cluster whose size
\* is no power of two.
C10_Witness ==
    /\ AdasumOn(ret, {"cuda"})
    /\ topo.gpu /\ ~topo.nccl /\ ~IsPowerOfTwo(topo.size)
    /\ ret.warned /\ ret.value = "handle"
    /\ ret.handle \in DOMAIN _handle_map

\* ------------------------------------- claims on the equivalence of policies
TensorOf(id) == CHOOSE x \in Tensors : x.id = id
\* The call's outcome is the one the policy decided: its error, or its
\* warning and, when the library was called, its op and divisor.
OutcomeOfPolicy(r, policy) ==
    IF policy.exc # ""
    THEN r.exc = policy.exc /\ r.msg = policy.msg /\ ~r.sent.called /\ ~r.warned
    ELSE /\ r.exc # "NotImplementedError"
         /\ r.warned = policy.warned
         /\ r.sent.called = Valid(r.request.tensor)
         /\ r.sent.called => (r.sent.op = policy.op /\ r.sent.divisor = policy.divisor)

\* C11: on every topology and build, for every op and every device of the
\* first tensor, the policy of a grouped reduce decides what the policy of a
\* reduce of one tensor on that device decides (same error, or same op, same
\* divisor, same warning), and the outcome of a grouped reduce is the one the
\* policy of the single reduce decides.
C11_GroupedPolicyIsSinglePolicy ==
    /\ \A tensor \in PolicyTensors, op \in Ops :
         _grouped_allreduce_policy(GroupOf(tensor), op) = _allreduce_policy(tensor, op)
    /\ ret.call = "grouped_allreduce_async" =>
         OutcomeOfPolicy(ret, _allreduce_policy(TensorOf(ret.request.tensor), ret.request.op))
    /\ ret.call = "allreduce_async" =>
         OutcomeOfPolicy(ret, _grouped_allreduce_policy(GroupOf(TensorOf(ret.request.tensor)),
                                                        ret.request.op))

\* A grouped Adasum reduce of a CPU tensor followed by an accelerator tensor
\* was refused for the number of ranks, with accelerators available.
C11_Witness ==
    /\ ret.call = "grouped_allreduce_async"
    /\ ret.request.op = Adasum
    /\ ret.request.tensor = CpuTensor.id
    /\ GroupOf(CpuTensor)[MaxGroup].device = "cuda"
    /\ topo.gpu
    /\ ret.exc = "NotImplementedError"

\* ------------------------------------------------ claims on the submissions
SubmissionCalls ==
    ReduceCalls \cup {"allgather_async", "broadcast_async", "broadcast_async_",
                      "alltoall_async"}

\* C13: when the native submission function raises RuntimeError, each of
\* the submissions raises HorovodInternalError to its caller, returns no
\* handle, and adds no entry to the handle table; the library was called
\* once, and a call that returns a handle is one the library did not fail.
C13_Step ==
    (ret' # ret /\ ret'.call \in SubmissionCalls /\ ret'.sent.called) =>
        IF ret'.msg = "RuntimeError"
        THEN /\ ret'.exc = "HorovodInternalError"
             /\ ret'.value = None /\ ret'.handle = 0
             /\ TableUnchanged
        ELSE /\ ret'.exc = "" /\ ret'.value = "handle"
             /\ ret'.handle = last_handle + 1
             /\ last_handle' = ret'.handle
             /\ DOMAIN _handle_map' = DOMAIN _handle_map \cup {ret'.handle}
C13_SubmissionFailureIsInternalError == [][C13_Step]_vars

\* An all-to-all was failed by the library while an earlier operation is
\* pending.
C13_Witness ==
    /\ ret.call = "alltoall_async"
    /\ ret.exc = "HorovodInternalError" /\ ret.sent.called
    /\ _handle_map # <<>>

\* --------------------------------------------- claims on concurrent callers
\* The entries of the handles other than h are what they were.
OthersUntouched(h) ==
    \A g \in DOMAIN _handle_map \ {h} :
        g \in DOMAIN _handle_map' /\ _handle_map'[g] = _handle_map[g]

\* C19: with several handles outstanding and threads inside synchronize on
\* distinct handles, a registration adds the entry of its new handle and
\* leaves the others as they are; a synchronize returns the output registered
\* for its own handle and removes the entry of that handle only; no other
\* step changes the handle table.
C19_RegisterStep ==
    (ret' # ret /\ ret'.value = "handle") =>
        /\ ret'.handle \notin DOMAIN _handle_map
        /\ DOMAIN _handle_map' = DOMAIN _handle_map \cup {ret'.handle}
        /\ _handle_map'[ret'.handle][1] = ret'.sent.operands.input
        /\ PoppedOutput(_handle_map'[ret'.handle]) = ret'.sent.operands.output
        /\ OthersUntouched(ret'.handle)
C19_ConsumeStep ==
    \A t \in Threads :
        (synchronize_pop(t) /\ arg[t] \in DOMAIN _handle_map) =>
            /\ ret'.handle = arg[t] /\ ret'.value = "tensor"
            /\ ret'.output = pending[arg[t]].output
            /\ DOMAIN _handle_map' = DOMAIN _handle_map \ {arg[t]}
            /\ OthersUntouched(arg[t])
C19_OtherStep ==
    (ret'.value # "handle" /\ \A t \in Threads : ~synchronize_pop(t)) =>
        _handle_map' = _handle_map
C19_NoCrossInterference ==
    [][C19_RegisterStep /\ C19_ConsumeStep /\ C19_OtherStep]_vars

\* A synchronize has returned the output of its handle while another thread
\* is inside synchronize on another handle, whose entry is in the table.
C19_Witness ==
    /\ ret.call = "synchronize" /\ ret.value = "tensor"
    /\ \E u \in Threads :
         /\ pc[u] = "pop" /\ arg[u] # ret.handle
         /\ arg[u] \in DOMAIN _handle_map
         /\ PoppedOutput(_handle_map[arg[u]]) # ret.output

\* ------------------------------------------- claims on the dispatch decision
\* What a rank that observes the facts f decides for a request: a function
\* of the facts, the device and layout of the (first) tensor, the op and the
\* name, and of nothing else.
DecisionError(exc) == [exc |-> exc, op |-> "", divisor |-> 0, key |-> ""]
DecisionSubmit(op, divisor, name) ==
    [exc |-> "", op |-> op, divisor |-> divisor, key |-> IF name = None THEN "" ELSE name]
Decision(f, tensor, op, name) ==
    LET refused ==
            /\ op = Adasum
            /\ IF tensor.device # "cpu" /\ f.gpu
               THEN f.nccl /\ (~f.homogeneous
                               \/ ~\E k \in 0..f.size : f.size = (2^k) * f.local_size)
               ELSE ~IsPowerOfTwo(f.size)
        gpu_path == tensor.device # "cpu" /\ f.gpu /\ f.nccl
    IN
    IF refused THEN DecisionError("NotImplementedError")
    ELSE IF ~Valid(tensor.id) THEN DecisionError("ValueError")
    ELSE IF op = Average /\ f.rocm THEN DecisionSubmit(Sum, f.size, name)
    ELSE IF op = Adasum /\ gpu_path /\ f.rocm THEN DecisionSubmit(Adasum, f.local_size, name)
    ELSE DecisionSubmit(op, 1, name)

\* The outcome of a call is the decision d.
Decided(r, d) ==
    IF d.exc # "" THEN r.exc = d.exc /\ ~r.sent.called /\ r.value = None
    ELSE /\ r.exc \in {"", "HorovodInternalError"}
         /\ r.sent.called
         /\ r.sent.op = d.op
         /\ r.sent.divisor = d.divisor
         /\ r.sent.name.text = d.key
         /\ (r.sent.name.type = "bytes") = (d.key # "")

\* C20: whatever calls were made before and whatever the handle table
\* holds, a reduce or grouped reduce either raises the error, or hands the
\* library the op, the divisor and the name, that the topology and build facts
\* and the request (op, device and layout of the tensor, name or no name)
\* determine.
C20_DecisionIsDeterministic ==
    ret.call \in ReduceCalls =>
        Decided(ret, Decision(topo, TensorOf(ret.request.tensor), ret.request.op,
                              ret.request.name))

\* A named Average reduce was handed to the library of a ROCm build as a
\* Sum with divisor size(), under its name, while an earlier operation is
\* pending.
C20_Witness ==
    /\ ret.call = "allreduce_async" /\ ret.request.op = Average
    /\ topo.rocm /\ topo.size >= 2
    /\ ret.sent.called /\ ret.sent.op = Sum /\ ret.sent.divisor = topo.size
    /\ ret.sent.name = [type |-> "bytes", text |-> "grad"]
    /\ ret.exc = "HorovodInternalError"
    /\ _handle_map # <<>>

\* ------------------------------------------------ claims on the validation
Range(s) == {s[i] : i \in DOMAIN s}
Supported(tensor) == tensor.type \in {FloatTensor, CudaFloatTensor}

\* C12: a submission that the policy does not refuse, of a tensor whose type
\* has no entry point in the library, raises the ValueError of the type; of
\* a non-contiguous tensor of a supported type, the ValueError of the layout;
\* neither calls the library nor registers a handle, so that every tensor
\* handed to the library is of a supported type and contiguous.
C12_ValidationBeforeSubmission ==
    (ret.call \in SubmissionCalls /\ ret.exc # "NotImplementedError") =>
        LET tensor == TensorOf(ret.request.tensor) IN
        /\ ~Supported(tensor) =>
             /\ ret.exc = "ValueError" /\ ret.msg = "Tensor type is not supported."
             /\ ~ret.sent.called /\ ret.handle = 0
        /\ (Supported(tensor) /\ ~tensor.contiguous) =>
             /\ ret.exc = "ValueError" /\ ret.msg = "Tensor is required to be contiguous."
             /\ ~ret.sent.called /\ ret.handle = 0
        /\ ret.sent.called =>
             \A id \in Range(ret.sent.operands.input) :
                 Supported(TensorOf(id)) /\ TensorOf(id).contiguous

\* -------------------------------------------------- claims on the variants
InPlaceCalls == {"allreduce_async_", "grouped_allreduce_async_", "broadcast_async_"}
CallerIds == {x.id : x \in Tensors}
\* The tensors an entry of the handle table refers to.
EntryIds(entry) == UNION {Range(entry[i]) : i \in DOMAIN entry}

\* C18: an in-place variant registers its input as the output, a variant
\* that is not in place registers buffers that are neither tensors of a caller
\* nor operands of a pending entry; synchronize returns the output registered,
\* the caller's own tensors exactly for the entries of in-place calls; and
\* both variants raise the same errors and hand the library the same op and
\* divisor for the same request.
C18_SameOutcome ==
    /\ ret.call \in ReduceCalls =>
         Decided(ret, Decision(topo, TensorOf(ret.request.tensor), ret.request.op,
                               ret.request.name))
    /\ ret.call \in {"broadcast_async", "broadcast_async_"} =>
         IF Valid(ret.request.tensor)
         THEN ret.sent.called /\ ret.exc \in {"", "HorovodInternalError"}
         ELSE ret.exc = "ValueError" /\ ~ret.sent.called
C18_RegisterStep ==
    (ret' # ret /\ ret'.value = "handle") =>
        LET entry == _handle_map'[ret'.handle]
            input == entry[1]
            output == PoppedOutput(entry)
        IN
        /\ input[1] = ret'.request.tensor
        /\ ret'.sent.operands = Operands(input, <<>>, output)
        /\ IF ret'.call \in InPlaceCalls
           THEN output = input
           ELSE /\ Range(output) \cap (CallerIds \cup Range(input)) = {}
                /\ \A g \in DOMAIN _handle_map :
                     Range(output) \cap EntryIds(_handle_map[g]) = {}
C18_ReturnStep ==
    (synchronize_pop(1) /\ arg[1] \in DOMAIN _handle_map) =>
        LET entry == _handle_map[arg[1]] IN
        /\ ret'.output = PoppedOutput(entry)
        /\ (ret'.output = entry[1]) = (Range(ret'.output) \subseteq CallerIds)
C18_VariantsAliasing ==
    /\ []C18_SameOutcome
    /\ [][C18_RegisterStep /\ C18_ReturnStep]_vars

\* A synchronize has returned the caller's own list of tensors, registered
\* by the in-place grouped reduce.
C18_Witness ==
    /\ ret.call = "synchronize" /\ ret.value = "tensor"
    /\ ret.output = Refs(GroupOf(CpuTensor))


\* ---- C14 (as stated): the backward rule of reduce, and of grouped reduce,
\* re-reduces the output gradients with op Sum whatever op the forward call
\* used, with the prescale and postscale factors of the forward call.
ReduceFns == {"allreduce", "grouped_allreduce"}
BackwardOf(fns) == grad.phase = "backward" /\ grad.fn \in fns
C14_BackwardReducesWithSum ==
    BackwardOf(ReduceFns) =>
        grad.calls = <<Call(grad.fn, Sum, world.prescale_factor, world.postscale_factor)>>

\* C14 (amended): the backward rule of reduce, and of grouped reduce, makes
\* one call, the same reduce on the output gradients, with the op the
\* forward call used and with its prescale and postscale factors.
C14_BackwardReducesWithForwardOp ==
    BackwardOf(ReduceFns) =>
        grad.calls = <<Call(grad.fn, world.op, world.prescale_factor,
                            world.postscale_factor)>>

\* An Average reduce with factors 2 and 1 went forward and backward.
C14_Witness ==
    /\ BackwardOf({"allreduce"})
    /\ grad.exc = ""
    /\ world.op = Average
    /\ world.prescale_factor = 2
    /\ world.postscale_factor = 1


\* ---- C15: gather backward returns, on rank k of any number of ranks with
\* any axis-0 extents r_0..r_{N-1}, the r_k rows of the Sum-reduced gradient
\* that start at offset r_0 + ... + r_{k-1} (0 on rank 0): row p of the
\* result is the sum over the ranks of row offset + p of their gradients.
C15_GatherBackwardSlice ==
    BackwardOf({"allgather"}) =>
        LET k == world.rank
            N == Len(world.rows)
            offset == SeqSum(SubSeq(world.rows, 1, k))
            total == SeqSum(world.rows)
        IN  /\ grad.exc = ""
            /\ Len(grad.value) = 2
            /\ Len(grad.value[1]) = world.rows[k + 1]
            /\ \A p \in 1..world.rows[k + 1] :
                 grad.value[1][p] =
                     SeqSum([j \in 1..N |-> OutputGradient(j, total)[offset + p]])
            /\ grad.value[2] = None

\* Extents [2,3,1,4]: rank 2 got one row, row 6 of the summed gradient.
C15_Witness ==
    /\ BackwardOf({"allgather"})
    /\ world.rows = <<2, 3, 1, 4>>
    /\ world.rank = 2
    /\ grad.value[1] = <<124>>


\* ---- C16: broadcast backward, for any number of ranks and any root,
\* returns on the root the sum over all ranks of the incoming gradients and
\* on every other rank zeros of the same shape.
C16_BroadcastBackward ==
    BackwardOf({"broadcast"}) =>
        LET N == Len(world.rows)
            n == world.rows[world.rank + 1]
        IN  /\ grad.exc = ""
            /\ Len(grad.value) = 3
            /\ Len(grad.value[1]) = n
            /\ \A p \in 1..n :
                 grad.value[1][p] =
                     IF world.rank = world.root
                     THEN SeqSum([j \in 1..N |-> OutputGradient(j, n)[p]])
                     ELSE 0
            /\ grad.value[2] = None
            /\ grad.value[3] = None

\* Three ranks, root 2: the root got the sums of two rows.
C16_Witness ==
    /\ BackwardOf({"broadcast"})
    /\ Len(world.rows) = 3
    /\ world.root = 2
    /\ world.rank = 2
    /\ grad.value[1] = <<63, 66>>

\* Rank 0 is not the root and got zeros.
C16_WitnessNonRoot ==
    /\ BackwardOf({"broadcast"})
    /\ world.root = 1
    /\ world.rank = 0
    /\ grad.value[1] = <<0, 0, 0>>


\* ---- C17: all-to-all forward followed by backward preserves shape. For
\* any number of ranks N and any send-split matrix S, the receive splits
\* recovered in backward on rank j are S[0][j]..S[N-1][j] and the gradient
\* backward returns on rank i has the axis-0 extent of the input of rank i;
\* also when no split vector was given and the extent is a multiple of N.
SentBy(i) == SendSplits(SplitsOf(i), world.rows[i])
C17_Shape ==
    LET N == Len(world.rows) IN
    /\ grad.exc = ""
    /\ grad.recvsplits = [i \in 1..N |-> SentBy(i)[world.rank + 1]]
    /\ Len(grad.value) = 3
    /\ Len(grad.value[1]) = world.rows[world.rank + 1]
C17_ExchangeRoundTrip == BackwardOf({"alltoall"}) => C17_Shape

\* The same with the split vectors given as tensors, or not given.
C17_TensorSplitsRoundTrip ==
    BackwardOf({"alltoall"}) /\ world.splits.kind # "list" => C17_Shape

\* Two ranks with split vectors [1, 0] and [1, 1], given as tensors: rank 0
\* got receive splits [1, 1] and a gradient of one row.
C17_Witness ==
    /\ BackwardOf({"alltoall"})
    /\ world.splits = Splits("Tensor", <<<<1, 0>>, <<1, 1>>>>)
    /\ world.rank = 0
    /\ grad.recvsplits = <<1, 1>>
    /\ Len(grad.value[1]) = 1


\* ---- C21: join returns on no rank before every rank has called join; a
\* collective issued by a rank that has not joined completes while other
\* ranks are blocked in join; join returns on every rank the id of the rank
\* that called join last; a failure of the library in join is raised as an
\* internal error.
C21_NoEarlyReturn ==
    \A r \in Ranks :
        job.phase[r + 1] = "returned" =>
            /\ \A s \in Ranks : job.phase[s + 1] # "running"
            /\ Len(job.order) = size
            /\ job.value[r + 1] = job.order[size]
C21_FailureIsInternalError ==
    \A r \in Ranks :
        /\ job.phase[r + 1] = "raised" => job.exc[r + 1] = "HorovodInternalError"
        /\ job.phase[r + 1] # "raised" => job.exc[r + 1] = ""
C21_Waits(r) == r \in Ranks /\ job.waiting[r + 1]
C21_Join ==
    /\ [](C21_NoEarlyReturn /\ C21_FailureIsInternalError)
    /\ \A r \in 0..(MaxJoinRanks - 1) : C21_Waits(r) ~> ~C21_Waits(r)

\* Ranks 0 and 2 joined without issuing a collective, rank 1 completed one
\* and joined last; join returned 1 on the three ranks.
C21_Witness ==
    /\ size = 3
    /\ job.order = <<0, 2, 1>>
    /\ job.completed = <<0, 1, 0>>
    /\ job.phase = <<"returned", "returned", "returned">>
    /\ job.value = <<1, 1, 1>>


\* ---- C22: a registration for a handle that already has an entry fails and
\* leaves the entry in place, a registration for a handle without an entry
\* does not fail; so the operands stored for a handle are never replaced
\* before the handle is consumed.
C22_Registered == ret' # ret /\ ret'.value = "handle"
C22_Step ==
    /\ C22_Registered => ret'.handle \notin DOMAIN _handle_map
    /\ \A h \in DOMAIN _handle_map \cap DOMAIN _handle_map' :
         _handle_map'[h] = _handle_map[h]
ForwardArguments == <<"name", "op", "prescale_factor", "postscale_factor">>
C23_GroupedGradientsAligned ==
    BackwardOf({"grouped_allreduce"}) /\ grad.exc = "" =>
        LET n == Len(ForwardArguments) IN
        /\ Len(grad.value) = n + MaxGroup
        /\ \A i \in 1..n : grad.value[i] = None
        /\ \A g \in 1..MaxGroup :
             grad.value[n + g] =
                 AllreduceValue(GroupOutputGradients(g, world.rows[world.rank + 1]),
                                world.op, world.prescale_factor, world.postscale_factor)


\* ---- C24: for every reduce or grouped reduce that passes the policy, the
\* divisor is size() for Average on a build that averages at framework level
\* (ROCm), local_size() for Adasum of an accelerator tensor through NCCL on
\* such a build, and 1 in every other case; the op handed to the library is
\* the requested op, except Average on such a build, which becomes Sum.
FrameworkAveraging == topo.rocm
GpuTransportPath(r) ==
    DeviceOf(r.request.tensor) # "cpu" /\ topo.gpu /\ topo.nccl
C24_DivisorAndOp ==
    (ret.call \in ReduceCalls /\ ret.sent.called) =>
        /\ ret.sent.divisor =
             IF ret.request.op = Average /\ FrameworkAveraging THEN topo.size
             ELSE IF ret.request.op = Adasum /\ GpuTransportPath(ret) /\ FrameworkAveraging
                  THEN topo.local_size
             ELSE 1
        /\ ret.sent.op =
             IF ret.request.op = Average /\ FrameworkAveraging THEN Sum
             ELSE ret.request.op

\* An Adasum reduce of an accelerator tensor reached the library of a ROCm
\* build with NCCL on two nodes of two ranks, with divisor 2.
C24_Witness ==
    /\ ret.call = "allreduce_async"
    /\ ret.request.op = Adasum
    /\ ret.request.tensor = CudaTensor.id
    /\ topo.rocm /\ topo.nccl /\ topo.gpu
    /\ topo.size = 4 /\ topo.local_size = 2
    /\ ret.sent.called /\ ret.sent.op = Adasum /\ ret.sent.divisor = 2


\* ---- C25: when the wait of synchronize(h) fails, the handle table is left
\* as it was: the entry of h and its operands remain and no output is
\* returned; a later synchronize(h) calls the wait again instead of
\* returning no result; an entry is removed only by a synchronize whose wait
\* succeeded.
FailedWait(h) == h \in DOMAIN results /\ results[h].cleared /\ results[h].status = "failed"
C25_FailStep ==
    \A t \in Threads :
        (pc[t] = "wait" /\ pc'[t] = "idle") =>
            /\ _handle_map' = _handle_map
            /\ ret'.call = "synchronize" /\ ret'.handle = arg[t]
            /\ ret'.exc # "" /\ ret'.value = None /\ ret'.output = <<>>
C25_EntryRemains ==
    \A h \in 1..last_handle :
        FailedWait(h) =>
            /\ h \in DOMAIN _handle_map
            /\ EntryOperands(_handle_map[h]) = pending[h]
C25_WaitsAgain ==
    \A h \in 1..last_handle :
        (FailedWait(h) /\ ret' # ret /\ ret'.call = "synchronize" /\ ret'.handle = h) =>
            /\ ret'.exc # ""
            /\ \E t \in Threads : pc[t] = "wait" /\ arg[t] = h /\ pc'[t] = "idle"
C25_RemovedBySuccess ==
    \A h \in DOMAIN _handle_map \ DOMAIN _handle_map' :
        \E t \in Threads :
            pc[t] = "pop" /\ arg[t] = h /\ results[h].status = "done" /\ pc'[t] = "idle"
C25_FailedWaitKeepsEntry ==
    /\ []C25_EntryRemains
    /\ [][C25_FailStep /\ C25_WaitsAgain /\ C25_RemovedBySuccess]_vars

\* The wait of a handle failed, its entry is still in the table and a second
\* synchronize of the handle is in the wait.
C25_Witness ==
    \E t \in Threads, h \in DOMAIN _handle_map :
        /\ FailedWait(h)
        /\ ret.call = "synchronize" /\ ret.handle = h /\ ret.exc = "HorovodInternalError"
        /\ pc[t] = "wait" /\ arg[t] = h


\* ---- C26: in every interleaving of two synchronize(h) calls on the same
\* pending handle, each call returns the output of h, returns no result or
\* raises an internal error, and fails with no other kind of error; at most
\* one of the two returns the output of h.
C26_Outcomes ==
    ret.call = "synchronize" =>
        \/ ret.exc = "" /\ ret.value = "tensor"
        \/ ret.exc = "" /\ ret.value = None
        \/ ret.exc = "HorovodInternalError"
C26_OutputOnce ==
    (ret' # ret /\ ret'.call = "synchronize" /\ ret'.value = "tensor") =>
        /\ ret'.handle \in DOMAIN _handle_map
        /\ ret'.handle \notin DOMAIN _handle_map'
C26_ConcurrentSynchronize == []C26_Outcomes /\ [][C26_OutputOnce]_vars

\* The second half alone: the output of a handle is returned by the step that
\* removes its entry, hence by at most one caller.
C26_OutputReturnedOnce == [][C26_OutputOnce]_vars


\* ---- C27: every backward rule makes the same sequence of collective calls
\* on every rank, whatever the rank, the root and the split vector: gather
\* backward a Sum-reduce and then a gather of the extents, broadcast
\* backward a Sum-reduce on root and other ranks alike, all-to-all backward
\* an exchange of the split sizes and then the exchange of the gradient; so
\* no rank waits for a collective that another rank never issues.
BackwardCalls(fn) ==
    IF fn = "allgather" THEN <<"allreduce", "allgather">>
    ELSE IF fn = "broadcast" THEN <<"allreduce">>
    ELSE IF fn = "alltoall" THEN <<"alltoall", "alltoall">>
    ELSE <<fn>>
C27_Sequence ==
    /\ grad.exc = ""
    /\ [i \in DOMAIN grad.calls |-> grad.calls[i].fn] = BackwardCalls(grad.fn)
    /\ grad.fn \in {"allgather", "broadcast"} => grad.calls[1].op = Sum
C27_SameCallsOnEveryRank == grad.phase = "backward" => C27_Sequence

\* The same for every backward rule but that of an all-to-all whose split
\* vectors were given as lists.
C27_SameCallsButListSplits ==
    (grad.phase = "backward" /\ ~(grad.fn = "alltoall" /\ world.splits.kind = "list")) =>
        C27_Sequence

====
